---- MODULE Spec2Model ----
(***************************************************************************)
(* Model of queryparser.py: parse / field_pairs / build_sq / ClauseVisitor. *)
(*                                                                         *)
(* Python strings are sequences of one-character strings, so that          *)
(* str.replace, re.split, the tokenizer of ast.parse, str.strip and the    *)
(* "%s" formatting are computed character by character.                    *)
(*                                                                         *)
(* SQ objects are opaque to the program: a leaf SQ([f, t]) is the tuple    *)
(* <<"SQ", f, t>>, a & b is <<"AND", a, b>> and a | b is <<"OR", a, b>>.    *)
(* An outcome of a call is a query object, None_, or Raise(exception).     *)
(***************************************************************************)
EXTENDS Integers, Sequences, FiniteSets, TLC

\* ------------------------------------------------------------------------
\* Characters and string helpers
\* ------------------------------------------------------------------------

Digits == {"0", "1", "2", "3", "4", "5", "6", "7", "8", "9"}

Letters ==
    {"a", "b", "c", "d", "e", "f", "g", "h", "i", "j", "k", "l", "m",
     "n", "o", "p", "q", "r", "s", "t", "u", "v", "w", "x", "y", "z",
     "A", "B", "C", "D", "E", "F", "G", "H", "I", "J", "K", "L", "M",
     "N", "O", "P", "Q", "R", "S", "T", "U", "V", "W", "X", "Y", "Z"}

\* The regular expression class \w (without re.U).
WordChars == Letters \cup Digits \cup {"_"}

QUOTE == "\""

startswith(s, p) == Len(s) >= Len(p) /\ SubSeq(s, 1, Len(p)) = p

endswith(s, p) == Len(s) >= Len(p) /\ SubSeq(s, Len(s) - Len(p) + 1, Len(s)) = p

\* str.replace(old, new): leftmost non-overlapping occurrences.
RECURSIVE replace(_, _, _)
replace(s, old, new) ==
    IF s = <<>> THEN <<>>
    ELSE IF startswith(s, old)
         THEN new \o replace(SubSeq(s, Len(old) + 1, Len(s)), old, new)
         ELSE <<Head(s)>> \o replace(Tail(s), old, new)

\* str.strip(c): drop every leading and trailing occurrence of c.
RECURSIVE lstrip(_, _)
lstrip(s, c) == IF s # <<>> /\ Head(s) = c THEN lstrip(Tail(s), c) ELSE s

RECURSIVE rstrip(_, _)
rstrip(s, c) ==
    IF s # <<>> /\ s[Len(s)] = c THEN rstrip(SubSeq(s, 1, Len(s) - 1), c) ELSE s

strip(s, c) == rstrip(lstrip(s, c), c)

\* ------------------------------------------------------------------------
\* Module constants (queryparser.py lines 8-15)
\* ------------------------------------------------------------------------

HAYSTACK_DOCUMENT_FIELD == <<"t", "e", "x", "t">>

EXACT_SUFFIX == <<"_", "_", "e", "x", "a", "c", "t">>

And_ == <<"A", "n", "d">>

Or_ == <<"O", "r">>

\* Outcomes
None_ == <<"None">>

Raise(exc) == <<"raise", exc>>

\* no outcome: the clause is outside the grammar modelled for ast.parse
Outside == <<"unmodelled">>

IsRaise(v) == v[1] = "raise"

\* haystack's SQ and its combinators, opaque to the program
SQ(f, t) == <<"SQ", f, t>>

and_(a, b) == <<"AND", a, b>>

or_(a, b) == <<"OR", a, b>>

IsSQ(v) == v[1] \in {"SQ", "AND", "OR"}

\* The functions operator.and_, operator.or_ and operator.not_ are named
\* "and_", "or_" and "not_";  call(fn, a, b) is fn(a, b): operator.not_
\* takes one argument.
call(fn, a, b) ==
    IF fn = "and_" THEN and_(a, b)
    ELSE IF fn = "or_" THEN or_(a, b)
    ELSE Raise("TypeError")

\* OPERATORS[name]   (lines 8-12): a dictionary of three keys; the lookup
\* of any other name raises KeyError
OPERATORS(name) ==
    CASE name = "AND" -> "and_"
      [] name = "OR"  -> "or_"
      [] name = "NOT" -> "not_"
      [] OTHER        -> "KeyError"

\* ------------------------------------------------------------------------
\* re.split("(\w+):", qs)   (parse, lines 85-86)
\* ------------------------------------------------------------------------

\* index of the last character of the run of \w characters that starts at i
RECURSIVE RunEnd(_, _)
RunEnd(s, i) == IF i < Len(s) /\ s[i + 1] \in WordChars THEN RunEnd(s, i + 1) ELSE i

\* i: scanning position (at the start of a run when on a word character);
\* start: first character of the piece being collected.  A match of (\w+):
\* is a maximal run of word characters followed by a colon; the piece before
\* it and the captured run are emitted, and scanning resumes after the colon.
RECURSIVE re_split_from(_, _, _)
re_split_from(s, i, start) ==
    IF i > Len(s) THEN << SubSeq(s, start, Len(s)) >>
    ELSE IF s[i] \in WordChars
         THEN LET j == RunEnd(s, i) IN
              IF j < Len(s) /\ s[j + 1] = ":"
              THEN << SubSeq(s, start, i - 1), SubSeq(s, i, j) >>
                       \o re_split_from(s, j + 2, j + 2)
              ELSE re_split_from(s, j + 1, start)
         ELSE re_split_from(s, i + 1, start)

re_split(s) == re_split_from(s, 1, 1)

Pair(f, t) == [field |-> f, term |-> t]

\* zip(clauses[::2], clauses[1::2]) after clauses.pop(0)   (line 95)
zip_pairs(clauses) ==
    [k \in 1..(Len(clauses) \div 2) |-> Pair(clauses[2 * k - 1], clauses[2 * k])]

\* the list 'pairs' handed to field_pairs   (lines 86-98)
parse_pairs(qs) ==
    LET split   == re_split(qs)
        content == Head(split)
        clauses == Tail(split)
        pairs   == IF clauses # <<>> THEN zip_pairs(clauses) ELSE <<>>
    IN  IF content # <<>>
        THEN Append(pairs, Pair(HAYSTACK_DOCUMENT_FIELD, content))
        ELSE pairs

\* ------------------------------------------------------------------------
\* ast.parse(...)   (build_sq, line 144)
\*
\* The program runs on Python 2 (the builtin reduce, line 103), so this is
\* Python 2.7's tokenizer and grammar, for every one-line source written
\* with letters, digits, underscores, both quote characters, parentheses,
\* brackets and blanks, string literals holding any character but a
\* backslash or a line break:
\*     file_input: [small_stmt]
\*     small_stmt: test | 'print' [test] | 'del' expr | 'pass' | 'break'
\*               | 'continue' | 'return' [test] | 'raise' [test]
\*               | 'yield' [test] | 'global' NAME | 'exec' expr ['in' test]
\*               | 'assert' test | 'import' NAME ['as' NAME]
\*               | 'from' NAME 'import' (as_name | '(' as_name ')')
\*     test:       or_test ['if' or_test 'else' test]
\*     or_test:    and_test ('or' and_test)*
\*     and_test:   not_test ('and' not_test)*
\*     not_test:   'not' not_test | comparison
\*     comparison: expr (comp_op expr)*
\*     comp_op:    'in' | 'not' 'in' | 'is' | 'is' 'not'
\*     expr:       atom trailer*
\*     trailer:    '(' [test [comp_for]] ')' | '[' test ']'
\*     atom:       '(' [yield_expr | test [comp_for]] ')'
\*               | '[' [test [comp_for]] ']' | NAME | NUMBER | STRING+
\*     comp_for:   'for' expr 'in' or_test [comp_iter]
\*     comp_iter:  comp_for | 'if' or_test [comp_iter]
\* A source holding any other character outside a string literal, or a
\* backslash or line break inside one, is outside this grammar: ast_parse
\* gives Unmodelled for it and says nothing about what Python does.
\* ------------------------------------------------------------------------

Tok(type, string) == [type |-> type, string |-> string]

ENDMARKER == Tok("ENDMARKER", <<>>)

\* the character at index i, "" past the end of the input
At(s, i) == IF i >= 1 /\ i <= Len(s) THEN s[i] ELSE ""

\* first index k >= i with s[k] outside the set, Len(s) + 1 when none
RECURSIVE SkipWhile(_, _, _)
SkipWhile(s, i, set) ==
    IF i <= Len(s) /\ s[i] \in set THEN SkipWhile(s, i + 1, set) ELSE i

\* first index k >= i with s[k] = c, or 0
RECURSIVE IndexFrom(_, _, _)
IndexFrom(s, c, i) ==
    IF i > Len(s) THEN 0 ELSE IF s[i] = c THEN i ELSE IndexFrom(s, c, i + 1)

\* first index k >= i where three quote characters c stand in a row, or 0
RECURSIVE TripleFrom(_, _, _)
TripleFrom(s, c, i) ==
    IF i + 2 > Len(s) THEN 0
    ELSE IF s[i] = c /\ s[i + 1] = c /\ s[i + 2] = c THEN i
    ELSE TripleFrom(s, c, i + 1)

Quotes == {"\"", "'"}

OctDigits == {"0", "1", "2", "3", "4", "5", "6", "7"}

HexDigits == Digits \cup {"a", "b", "c", "d", "e", "f", "A", "B", "C", "D", "E", "F"}

\* characters a string literal of the modelled sources does not hold
Escapes == {"\\", "\n", "\r"}

\* A token and the index of the character after it.
Scanned(type, string, next) == [tok |-> Tok(type, string), next |-> next]

\* The string literal whose opening quote is at q (i: where the token,
\* with its prefix, starts).  Three quotes open a literal that three quotes
\* close; a literal left open is an error.
string_literal(s, i, q) ==
    LET c == s[q] IN
    IF \E k \in q..Len(s) : s[k] \in Escapes
    THEN Scanned("UNMODELLED", SubSeq(s, i, Len(s)), 0)
    ELSE IF At(s, q + 1) = c /\ At(s, q + 2) = c
    THEN LET k == TripleFrom(s, c, q + 3) IN
         IF k = 0 THEN Scanned("ERRORTOKEN", SubSeq(s, i, Len(s)), 0)
         ELSE Scanned("STRING", SubSeq(s, q + 3, k - 1), k + 3)
    ELSE LET k == IndexFrom(s, c, q + 1) IN
         IF k = 0 THEN Scanned("ERRORTOKEN", SubSeq(s, i, Len(s)), 0)
         ELSE Scanned("STRING", SubSeq(s, q + 1, k - 1), k + 1)

\* Length of the string prefix that starts at i: b, u, r, br or ur in
\* either case, directly before a quote; 0 when the letters start a name.
string_prefix(s, i) ==
    IF s[i] \in {"b", "B", "u", "U"}
    THEN IF At(s, i + 1) \in {"r", "R"}
         THEN IF At(s, i + 2) \in Quotes THEN 2 ELSE 0
         ELSE IF At(s, i + 1) \in Quotes THEN 1 ELSE 0
    ELSE IF s[i] \in {"r", "R"} /\ At(s, i + 1) \in Quotes THEN 1
    ELSE 0

\* the optional suffixes of a number, p the index after its digits
long_suffix(s, p) == IF At(s, p) \in {"l", "L"} THEN p + 1 ELSE p

imaginary(s, p) == IF At(s, p) \in {"j", "J"} THEN p + 1 ELSE p

\* p is the index of an 'e': an exponent when digits follow it, otherwise
\* the number ends before the 'e'
exponent(s, p) ==
    IF At(s, p + 1) \in Digits
    THEN imaginary(s, SkipWhile(s, p + 1, Digits))
    ELSE p

\* digits after a base marker (0x, 0o, 0b), at least one
based(s, p, digits) ==
    IF At(s, p) \in digits THEN long_suffix(s, SkipWhile(s, p, digits)) ELSE 0

\* a leading 0 followed by digits: octal, unless an exponent or a 'j'
\* makes it a float; a digit 8 or 9 is otherwise an error
old_octal(s, p, q) ==
    IF At(s, q) \in {"e", "E"} THEN exponent(s, q)
    ELSE IF At(s, q) \in {"j", "J"} THEN q + 1
    ELSE IF q > p THEN 0
    ELSE long_suffix(s, q)

\* Index after the number that starts at the digit s[i], or 0 when the
\* digits are not a number.
number_end(s, i) ==
    IF s[i] = "0"
    THEN IF At(s, i + 1) \in {"j", "J"} THEN i + 2
         ELSE IF At(s, i + 1) \in {"x", "X"} THEN based(s, i + 2, HexDigits)
         ELSE IF At(s, i + 1) \in {"o", "O"} THEN based(s, i + 2, OctDigits)
         ELSE IF At(s, i + 1) \in {"b", "B"} THEN based(s, i + 2, {"0", "1"})
         ELSE old_octal(s, SkipWhile(s, i + 1, OctDigits),
                        SkipWhile(s, SkipWhile(s, i + 1, OctDigits), Digits))
    ELSE LET q == SkipWhile(s, i, Digits) IN
         IF At(s, q) \in {"l", "L"} THEN q + 1
         ELSE IF At(s, q) \in {"e", "E"} THEN exponent(s, q)
         ELSE imaginary(s, q)

number(s, i, j) ==
    IF j = 0 THEN Scanned("ERRORTOKEN", SubSeq(s, i, Len(s)), 0)
    ELSE Scanned("NUMBER", SubSeq(s, i, j - 1), j)

name(s, i, j) == Scanned("NAME", SubSeq(s, i, j - 1), j)

\* the token that starts at the non-blank character s[i]
next_token(s, i) ==
    IF s[i] \in {"(", ")", "[", "]"} THEN Scanned("OP", <<s[i]>>, i + 1)
    ELSE IF s[i] \in Quotes THEN string_literal(s, i, i)
    ELSE IF s[i] \in Letters \cup {"_"}
    THEN IF string_prefix(s, i) > 0
         THEN string_literal(s, i, i + string_prefix(s, i))
         ELSE name(s, i, SkipWhile(s, i, WordChars))
    ELSE IF s[i] \in Digits THEN number(s, i, number_end(s, i))
    ELSE Scanned("UNMODELLED", <<s[i]>>, 0)

RECURSIVE tokenize_from(_, _)
RECURSIVE tokenize_after(_, _)

\* the tokens from index i on; the list ends with the token that stopped
\* the tokenizer, if one did
tokenize_from(s, i) ==
    IF i > Len(s) THEN <<>>
    ELSE IF s[i] = " " THEN tokenize_from(s, i + 1)
    ELSE tokenize_after(s, next_token(s, i))

tokenize_after(s, r) ==
    IF r.tok.type \in {"ERRORTOKEN", "UNMODELLED"} THEN <<r.tok>>
    ELSE <<r.tok>> \o tokenize_from(s, r.next)

tokenize(s) == tokenize_from(s, 1)

kw_and == <<"a", "n", "d">>

kw_or == <<"o", "r">>

kw_not == <<"n", "o", "t">>

kw_in == <<"i", "n">>

kw_print == <<"p", "r", "i", "n", "t">>

kw_assert == <<"a", "s", "s", "e", "r", "t">>

\* Python 2.7's other keywords; the last nine start a compound statement,
\* a lambda or a clause of one, which need a colon.
Keyword ==
    [is |-> <<"i", "s">>, if |-> <<"i", "f">>, else |-> <<"e", "l", "s", "e">>,
     for |-> <<"f", "o", "r">>, as |-> <<"a", "s">>, del |-> <<"d", "e", "l">>,
     pass |-> <<"p", "a", "s", "s">>, break |-> <<"b", "r", "e", "a", "k">>,
     continue |-> <<"c", "o", "n", "t", "i", "n", "u", "e">>,
     return |-> <<"r", "e", "t", "u", "r", "n">>,
     raise |-> <<"r", "a", "i", "s", "e">>, yield |-> <<"y", "i", "e", "l", "d">>,
     global |-> <<"g", "l", "o", "b", "a", "l">>, exec |-> <<"e", "x", "e", "c">>,
     import |-> <<"i", "m", "p", "o", "r", "t">>, from |-> <<"f", "r", "o", "m">>,
     class |-> <<"c", "l", "a", "s", "s">>, def |-> <<"d", "e", "f">>,
     elif |-> <<"e", "l", "i", "f">>, except |-> <<"e", "x", "c", "e", "p", "t">>,
     finally |-> <<"f", "i", "n", "a", "l", "l", "y">>,
     lambda |-> <<"l", "a", "m", "b", "d", "a">>, try |-> <<"t", "r", "y">>,
     while |-> <<"w", "h", "i", "l", "e">>, with |-> <<"w", "i", "t", "h">>]

Keywords ==
    {kw_and, kw_or, kw_not, kw_in, kw_print, kw_assert}
        \cup {Keyword[k] : k \in DOMAIN Keyword}

\* names that may be read but not bound
Forbidden == {<<"N", "o", "n", "e">>, <<"_", "_", "d", "e", "b", "u", "g", "_", "_">>}

Peek(t, p) == IF p <= Len(t) THEN t[p] ELSE ENDMARKER

IsOp(tok, c) == tok.type = "OP" /\ tok.string = <<c>>

IsKw(tok, w) == tok.type = "NAME" /\ tok.string = w

\* a NAME of the grammar: an identifier that is not a keyword
IsName(tok) == tok.type = "NAME" /\ tok.string \notin Keywords

\* AST nodes
Name(id) == [type |-> "Name", id |-> id]

Str(s) == [type |-> "Str", s |-> s]

Num(n) == [type |-> "Num", n |-> n]

BoolOp(op, values) == [type |-> "BoolOp", op |-> op, values |-> values]

UnaryOp(op, operand) == [type |-> "UnaryOp", op |-> op, operand |-> operand]

Compare(left, comparators) ==
    [type |-> "Compare", left |-> left, comparators |-> comparators]

IfExp(test_, body, orelse) ==
    [type |-> "IfExp", test |-> test_, body |-> body, orelse |-> orelse]

Call(func, args) == [type |-> "Call", func |-> func, args |-> args]

Index(value) == [type |-> "Index", value |-> value]

Subscript(value, slice) == [type |-> "Subscript", value |-> value, slice |-> slice]

Tuple(elts) == [type |-> "Tuple", elts |-> elts]

List(elts) == [type |-> "List", elts |-> elts]

comprehension(target, iter, ifs) ==
    [type |-> "comprehension", target |-> target, iter |-> iter, ifs |-> ifs]

\* ListComp or GeneratorExp
Comp(type, elt, generators) ==
    [type |-> type, elt |-> elt, generators |-> generators]

Yield(value) == [type |-> "Yield", value |-> value]

alias(name_, asname) == [type |-> "alias", name |-> name_, asname |-> asname]

\* A statement and the expressions it holds, in the order of its fields;
\* an optional field that is absent holds nothing.
\*   Expr(value)  Print(dest, values, nl)  Delete(targets)  Return(value)
\*   Raise(type, inst, tback)  Assert(test, msg)  Exec(body, globals, locals)
\*   Import(names)  ImportFrom(module, names, level), the names being
\*   alias nodes;  Global(names), the names being strings
\*   Pass  Break  Continue
Stmt(type, exprs) == [type |-> type, exprs |-> exprs]

Statements ==
    {"Expr", "Print", "Delete", "Return", "Raise", "Assert", "Exec",
     "Import", "ImportFrom", "Global", "Pass", "Break", "Continue"}

Module(body) == [type |-> "Module", body |-> body]

\* A node without fields, held in a field of another node: the
\* expr_context of a Name, Subscript, Tuple or List (Load, Store, Del), the
\* boolop of a BoolOp, the unaryop of a UnaryOp, a cmpop of a Compare.
Fieldless(type) == [type |-> type]

\* The AST children of a node in the order generic_visit reaches them:
\* reversed(list(ast.iter_fields(node))), list fields in their own order.
\*   Name(id, ctx) -> ctx
\*   BoolOp(op, values)  -> values, then op
\*   UnaryOp(op, operand)-> operand, then op
\*   Compare(left, ops, comparators) -> comparators, ops (one for each
\*       comparator), then left
\*   IfExp(test, body, orelse) -> orelse, body, test
\*   Call(func, args, ..)-> args, then func
\*   Subscript(value, slice, ctx) -> ctx, slice, value;  Index(value) -> value
\*   ListComp/GeneratorExp(elt, generators) -> generators, then elt
\*   comprehension(target, iter, ifs) -> ifs, iter, target
\*   Yield(value) -> value
\*   Tuple/List(elts, ctx) -> ctx, then elts;  Module(body) -> body
\*   a statement -> its expressions, last field first
\*   Str(s), Num(n), alias(name, asname), a node without fields -> none
children(node) ==
    CASE node.type = "Name"      -> <<Fieldless("expr_context")>>
      [] node.type = "BoolOp"    -> node.values \o <<Fieldless("boolop")>>
      [] node.type = "UnaryOp"   -> <<node.operand, Fieldless("unaryop")>>
      [] node.type = "Compare"   ->
             node.comparators
                 \o [k \in 1..Len(node.comparators) |-> Fieldless("cmpop")]
                 \o <<node.left>>
      [] node.type = "IfExp"     -> <<node.orelse, node.body, node.test>>
      [] node.type = "Call"      -> node.args \o <<node.func>>
      [] node.type = "Subscript" ->
             <<Fieldless("expr_context"), node.slice, node.value>>
      [] node.type = "Index"     -> <<node.value>>
      [] node.type \in {"ListComp", "GeneratorExp"} ->
             node.generators \o <<node.elt>>
      [] node.type = "comprehension" -> node.ifs \o <<node.iter, node.target>>
      [] node.type = "Yield"     -> node.value
      [] node.type \in {"Tuple", "List"} ->
             <<Fieldless("expr_context")>> \o node.elts
      [] node.type = "Module"    -> node.body
      [] node.type \in Statements ->
             [k \in 1..Len(node.exprs) |-> node.exprs[Len(node.exprs) + 1 - k]]
      [] OTHER -> <<>>

\* The parser keeps the productions it is in on a stack of MAXSTACK
\* entries (Python 2.7, Parser/parser.h); a token that needs one more makes
\* ast.parse raise MemoryError.
MAXSTACK == 1500

\* A parse result: the node and the position of the next token, or a
\* failure: the exception that ast.parse raises.
Parsed(node, pos) == [ok |-> TRUE, node |-> node, pos |-> pos]

Fail == [ok |-> FALSE, exc |-> "SyntaxError"]

Overflow == [ok |-> FALSE, exc |-> "MemoryError"]

\* Each production takes the token list t, a position p and the depth d of
\* its own entry on the parser's stack (file_input is entry 1), and gives
\* the node it parsed with the position after it, or the failure at the
\* first token that cannot be taken.  The depth counts every production
\* of the grammar between two modelled ones:
\*   test > or_test > and_test > not_test > comparison > expr > xor_expr >
\*   and_expr > shift_expr > arith_expr > term > factor > power > atom
\* A token is checked against MAXSTACK where it opens the deepest entry:
\* the first token of an atom, 'not', 'yield', and the 'for' and 'if' of
\* a comprehension; every other token is taken by an entry that is less
\* deep than one an earlier token has opened.
RECURSIVE test(_, _, _)
RECURSIVE ternary(_, _, _)
RECURSIVE ternary_else(_, _, _, _)
RECURSIVE or_test(_, _, _)
RECURSIVE or_tail(_, _, _, _)
RECURSIVE or_more(_, _, _, _)
RECURSIVE and_test(_, _, _)
RECURSIVE and_tail(_, _, _, _)
RECURSIVE and_more(_, _, _, _)
RECURSIVE not_test(_, _, _)
RECURSIVE comparison(_, _, _)
RECURSIVE comp_first(_, _, _)
RECURSIVE comp_tail(_, _, _, _, _)
RECURSIVE comp_more(_, _, _, _, _)
RECURSIVE expr(_, _, _)
RECURSIVE power(_, _, _)
RECURSIVE trailers(_, _, _, _)
RECURSIVE call_trailer(_, _, _, _)
RECURSIVE subscript_trailer(_, _, _, _)
RECURSIVE atom(_, _, _)
RECURSIVE strings(_, _, _)
RECURSIVE yield_expr(_, _, _)
RECURSIVE test_comp(_, _, _)
RECURSIVE listmaker(_, _, _)
RECURSIVE comp_for(_, _, _, _, _)
RECURSIVE comp_in(_, _, _, _, _)
RECURSIVE comp_iter(_, _, _, _, _, _)
RECURSIVE comp_ifs(_, _, _, _, _, _, _, _)
RECURSIVE comp_if(_, _, _, _, _, _, _, _)
RECURSIVE set_context(_, _)
RECURSIVE ast_for_stmt(_)

\* What may be bound (ctx "Store") or deleted (ctx "Del"): a name, a
\* subscript, or a list of such; binding a forbidden name is an error.
set_context(e, ctx) ==
    CASE e.type = "Subscript" -> TRUE
      [] e.type = "Name" -> ~(ctx = "Store" /\ e.id \in Forbidden)
      [] e.type = "List" -> \A k \in 1..Len(e.elts) : set_context(e.elts[k], ctx)
      [] OTHER -> FALSE

\* STRING+ : adjacent string literals are concatenated into one Str
strings(t, p, s) ==
    IF Peek(t, p).type = "STRING"
    THEN strings(t, p + 1, s \o Peek(t, p).string)
    ELSE Parsed(Str(s), p)

\* the closing bracket c expected after the parsed expression e
closing(t, e, c) ==
    IF ~e.ok THEN e
    ELSE IF IsOp(Peek(t, e.pos), c) THEN Parsed(e.node, e.pos + 1)
    ELSE Fail

list_display(e) == IF e.ok THEN Parsed(List(<<e.node>>), e.pos) ELSE e

\* the expression after a keyword that may stand alone
holds(e, type) == IF e.ok THEN Parsed(Stmt(type, <<e.node>>), e.pos) ELSE e

yielded(e) == IF e.ok THEN Parsed(Yield(<<e.node>>), e.pos) ELSE e

\* does an expression start at p, rather than the end of the statement or
\* of the parentheses
Continues(t, p) == Peek(t, p).type # "ENDMARKER" /\ ~IsOp(Peek(t, p), ")")

\* yield_expr: 'yield' [testlist], p at the keyword; testlist > test
yield_expr(t, p, d) ==
    IF d > MAXSTACK THEN Overflow
    ELSE IF Continues(t, p + 1) THEN yielded(test(t, p + 1, d + 2))
    ELSE Parsed(Yield(<<>>), p + 1)

\* The or_test after 'in' lies one entry below a comp_for
\* (comp_for: 'for' exprlist 'in' or_test [comp_iter]) and three below a
\* list_for (list_for: 'for' exprlist 'in' testlist_safe [list_iter],
\* testlist_safe > old_test > or_test).
IterDepth(type) == IF type = "ListComp" THEN 3 ELSE 1

\* comp_for or list_for at depth d, and what follows it: the
\* comprehensions 'gens' so far and the one being read, each 'for'
\* starting a new one and each 'if' joining the latest.  The target is
\* exprlist > expr.
comp_for(t, p, d, type, gens) ==
    IF d > MAXSTACK THEN Overflow
    ELSE comp_in(t, expr(t, p + 1, d + 2), d, type, gens)

comp_in(t, tg, d, type, gens) ==
    IF ~tg.ok THEN tg
    ELSE IF IsKw(Peek(t, tg.pos), kw_in)
    THEN comp_iter(t, or_test(t, tg.pos + 1, d + IterDepth(type)), d, type,
                   tg.node, gens)
    ELSE Fail

comp_iter(t, it, d, type, target, gens) ==
    IF it.ok THEN comp_ifs(t, it.pos, d, type, target, it.node, <<>>, gens)
    ELSE it

\* [comp_iter] after the comp_for or comp_if at depth d:
\*   comp_iter: comp_for | comp_if;  comp_if: 'if' old_test [comp_iter],
\*   old_test > or_test (list_iter, list_for and list_if likewise)
comp_ifs(t, p, d, type, target, iter, ifs, gens) ==
    IF IsKw(Peek(t, p), Keyword.if)
    THEN IF d + 2 > MAXSTACK THEN Overflow
         ELSE comp_if(t, or_test(t, p + 1, d + 4), d + 2, type, target, iter,
                      ifs, gens)
    ELSE IF IsKw(Peek(t, p), Keyword.for)
    THEN comp_for(t, p, d + 2, type,
                  Append(gens, comprehension(target, iter, ifs)))
    ELSE Parsed(Append(gens, comprehension(target, iter, ifs)), p)

comp_if(t, c, d, type, target, iter, ifs, gens) ==
    IF c.ok
    THEN comp_ifs(t, c.pos, d, type, target, iter, Append(ifs, c.node), gens)
    ELSE c

comp_of(g, type, elt) ==
    IF g.ok THEN Parsed(Comp(type, elt, g.node), g.pos) ELSE g

\* test [comp_for], both at depth d: the expression e, or the generator
\* expression that it is the element of
test_comp(t, e, d) ==
    IF e.ok /\ IsKw(Peek(t, e.pos), Keyword.for)
    THEN comp_of(comp_for(t, e.pos, d, "GeneratorExp", <<>>), "GeneratorExp",
                 e.node)
    ELSE e

\* '[' test [list_for] ']', test and list_for at depth d: a list
\* comprehension, or a list of one element
listmaker(t, e, d) ==
    IF e.ok /\ IsKw(Peek(t, e.pos), Keyword.for)
    THEN closing(t, comp_of(comp_for(t, e.pos, d, "ListComp", <<>>),
                            "ListComp", e.node), "]")
    ELSE list_display(closing(t, e, "]"))

\* atom: '(' [yield_expr | testlist_comp] ')' | '[' [listmaker] ']' |
\*       NAME | NUMBER | STRING+ ;  testlist_comp > test, listmaker > test
atom(t, p, d) ==
    IF ~(\/ IsOp(Peek(t, p), "(") \/ IsOp(Peek(t, p), "[") \/ IsName(Peek(t, p))
         \/ Peek(t, p).type \in {"NUMBER", "STRING"})
    THEN Fail
    ELSE IF d > MAXSTACK THEN Overflow
    ELSE IF IsOp(Peek(t, p), "(")
    THEN IF IsOp(Peek(t, p + 1), ")") THEN Parsed(Tuple(<<>>), p + 2)
         ELSE IF IsKw(Peek(t, p + 1), Keyword.yield)
         THEN closing(t, yield_expr(t, p + 1, d + 1), ")")
         ELSE closing(t, test_comp(t, test(t, p + 1, d + 2), d + 2), ")")
    ELSE IF IsOp(Peek(t, p), "[")
    THEN IF IsOp(Peek(t, p + 1), "]") THEN Parsed(List(<<>>), p + 2)
         ELSE listmaker(t, test(t, p + 1, d + 2), d + 2)
    ELSE IF IsName(Peek(t, p)) THEN Parsed(Name(Peek(t, p).string), p + 1)
    ELSE IF Peek(t, p).type = "NUMBER" THEN Parsed(Num(Peek(t, p).string), p + 1)
    ELSE strings(t, p, <<>>)

call_trailer(t, e, d, func) ==
    IF e.ok THEN trailers(t, e.pos, d, Call(func, <<e.node>>)) ELSE e

subscript_trailer(t, e, d, value) ==
    IF e.ok THEN trailers(t, e.pos, d, Subscript(value, Index(e.node))) ELSE e

\* trailer* of the power at depth d:
\*   trailer: '(' [arglist] ')' | '[' subscriptlist ']'
\*   trailer > arglist > argument > test, argument: test [comp_for]
\*   trailer > subscriptlist > subscript > test
trailers(t, p, d, node) ==
    IF IsOp(Peek(t, p), "(")
    THEN IF IsOp(Peek(t, p + 1), ")")
         THEN trailers(t, p + 2, d, Call(node, <<>>))
         ELSE call_trailer(t, closing(t, test_comp(t, test(t, p + 1, d + 4),
                                                   d + 4), ")"), d, node)
    ELSE IF IsOp(Peek(t, p), "[")
    THEN subscript_trailer(t, closing(t, test(t, p + 1, d + 4), "]"), d, node)
    ELSE Parsed(node, p)

after_atom(t, a, d) == IF a.ok THEN trailers(t, a.pos, d, a.node) ELSE a

\* power: atom trailer*
power(t, p, d) == after_atom(t, atom(t, p, d + 1), d)

\* expr: without arithmetic operators an expr is a power, seven entries
\* below it
expr(t, p, d) == power(t, p, d + 7)

\* number of tokens of the comparison operator at p, 0 when none is there
comp_op(t, p) ==
    IF IsKw(Peek(t, p), kw_in) THEN 1
    ELSE IF IsKw(Peek(t, p), Keyword.is)
    THEN IF IsKw(Peek(t, p + 1), kw_not) THEN 2 ELSE 1
    ELSE IF IsKw(Peek(t, p), kw_not) /\ IsKw(Peek(t, p + 1), kw_in) THEN 2
    ELSE 0

\* a chain of comparisons becomes ONE Compare node
comp_more(t, e, d, left, comparators) ==
    IF e.ok THEN comp_tail(t, e.pos, d, left, Append(comparators, e.node))
    ELSE e

comp_tail(t, p, d, left, comparators) ==
    IF comp_op(t, p) > 0
    THEN comp_more(t, expr(t, p + comp_op(t, p), d + 1), d, left, comparators)
    ELSE Parsed(IF comparators = <<>> THEN left ELSE Compare(left, comparators), p)

comp_first(t, e, d) == IF e.ok THEN comp_tail(t, e.pos, d, e.node, <<>>) ELSE e

\* comparison: expr (comp_op expr)*
comparison(t, p, d) == comp_first(t, expr(t, p, d + 1), d)

negation(e) == IF e.ok THEN Parsed(UnaryOp("Not", e.node), e.pos) ELSE e

\* not_test: 'not' not_test | comparison
not_test(t, p, d) ==
    IF IsKw(Peek(t, p), kw_not)
    THEN IF d > MAXSTACK THEN Overflow ELSE negation(not_test(t, p + 1, d + 1))
    ELSE comparison(t, p, d + 1)

\* a run of 'and' operands becomes ONE BoolOp node holding all of them
and_more(t, e, d, values) ==
    IF e.ok THEN and_tail(t, e.pos, d, Append(values, e.node)) ELSE e

and_tail(t, p, d, values) ==
    IF IsKw(Peek(t, p), kw_and)
    THEN and_more(t, not_test(t, p + 1, d + 1), d, values)
    ELSE Parsed(IF Len(values) = 1 THEN values[1] ELSE BoolOp(And_, values), p)

and_test(t, p, d) == and_more(t, not_test(t, p, d + 1), d, <<>>)

\* likewise a run of 'or' operands
or_more(t, e, d, values) ==
    IF e.ok THEN or_tail(t, e.pos, d, Append(values, e.node)) ELSE e

or_tail(t, p, d, values) ==
    IF IsKw(Peek(t, p), kw_or)
    THEN or_more(t, and_test(t, p + 1, d + 1), d, values)
    ELSE Parsed(IF Len(values) = 1 THEN values[1] ELSE BoolOp(Or_, values), p)

or_test(t, p, d) == or_more(t, and_test(t, p, d + 1), d, <<>>)

\* body 'if' test 'else' orelse
conditional(o, cond, body) ==
    IF o.ok THEN Parsed(IfExp(cond, body, o.node), o.pos) ELSE o

ternary_else(t, c, d, body) ==
    IF ~c.ok THEN c
    ELSE IF IsKw(Peek(t, c.pos), Keyword.else)
    THEN conditional(test(t, c.pos + 1, d + 1), c.node, body)
    ELSE Fail

ternary(t, e, d) ==
    IF e.ok /\ IsKw(Peek(t, e.pos), Keyword.if)
    THEN ternary_else(t, or_test(t, e.pos + 1, d + 1), d, e.node)
    ELSE e

\* test: or_test ['if' or_test 'else' test]
test(t, p, d) == ternary(t, or_test(t, p, d + 1), d)

\* NAME ['as' NAME] of an import
as_name(t, p) ==
    IF ~IsName(Peek(t, p)) THEN Fail
    ELSE IF IsKw(Peek(t, p + 1), Keyword.as)
    THEN IF IsName(Peek(t, p + 2))
         THEN Parsed(alias(Peek(t, p).string, Peek(t, p + 2).string), p + 3)
         ELSE Fail
    ELSE Parsed(alias(Peek(t, p).string, <<>>), p + 1)

imported(e, type) == IF e.ok THEN Parsed(Stmt(type, <<e.node>>), e.pos) ELSE e

import_from(t) ==
    IF IsName(Peek(t, 2)) /\ IsKw(Peek(t, 3), Keyword.import)
    THEN IF IsOp(Peek(t, 4), "(")
         THEN imported(closing(t, as_name(t, 5), ")"), "ImportFrom")
         ELSE imported(as_name(t, 4), "ImportFrom")
    ELSE Fail

del_stmt(e) == IF e.ok THEN Parsed(Stmt("Delete", <<e.node>>), e.pos) ELSE e

exec_in(g, body) ==
    IF g.ok THEN Parsed(Stmt("Exec", <<body, g.node>>), g.pos) ELSE g

exec_stmt(t, e) ==
    IF e.ok THEN IF IsKw(Peek(t, e.pos), kw_in)
                 THEN exec_in(test(t, e.pos + 1, 6), e.node)
                 ELSE Parsed(Stmt("Exec", <<e.node>>), e.pos)
    ELSE e

\* keyword [test], the test at depth d
optional(t, type, d) ==
    IF Continues(t, 2) THEN holds(test(t, 2, d), type)
    ELSE Parsed(Stmt(type, <<>>), 2)

\* The statement the token list starts with.  Every statement is entry 5
\* (file_input > stmt > simple_stmt > small_stmt > the statement; return,
\* raise and yield lie one deeper, under flow_stmt):
\*   expr_stmt > testlist > test          print_stmt > test
\*   return_stmt > testlist > test        raise_stmt > test
\*   yield_stmt > yield_expr              assert_stmt > test
\*   del_stmt > exprlist > expr           exec_stmt > expr, 'in' test
small_stmt(t) ==
    LET k == Peek(t, 1) IN
    IF IsKw(k, kw_print) THEN optional(t, "Print", 6)
    ELSE IF IsKw(k, Keyword.return) THEN optional(t, "Return", 8)
    ELSE IF IsKw(k, Keyword.raise) THEN optional(t, "Raise", 7)
    ELSE IF IsKw(k, Keyword.yield) THEN holds(yield_expr(t, 1, 7), "Expr")
    ELSE IF IsKw(k, kw_assert) THEN holds(test(t, 2, 6), "Assert")
    ELSE IF IsKw(k, Keyword.del) THEN del_stmt(expr(t, 2, 7))
    ELSE IF IsKw(k, Keyword.exec) THEN exec_stmt(t, expr(t, 2, 6))
    ELSE IF IsKw(k, Keyword.pass) THEN Parsed(Stmt("Pass", <<>>), 2)
    ELSE IF IsKw(k, Keyword.break) THEN Parsed(Stmt("Break", <<>>), 2)
    ELSE IF IsKw(k, Keyword.continue) THEN Parsed(Stmt("Continue", <<>>), 2)
    ELSE IF IsKw(k, Keyword.global)
    THEN IF IsName(Peek(t, 2)) THEN Parsed(Stmt("Global", <<>>), 3) ELSE Fail
    ELSE IF IsKw(k, Keyword.import) THEN imported(as_name(t, 2), "Import")
    ELSE IF IsKw(k, Keyword.from) THEN import_from(t)
    ELSE holds(test(t, 1, 7), "Expr")

\* ast.parse raising SyntaxError (IndentationError, raised for an indented
\* first line, is a SyntaxError).
SyntaxError == [type |-> "SyntaxError"]

\* ast.parse raising MemoryError: the parser's stack is full
MemoryError == [type |-> "MemoryError"]

\* a source outside the modelled grammar
Unmodelled == [type |-> "Unmodelled"]

\* The errors found when the parsed statement is turned into the AST, after
\* every token has been taken: a target of 'for' or 'del' that cannot be
\* bound or deleted, an import that binds a forbidden name.  TRUE when
\* the statement has none.
ast_for_stmt(node) ==
    /\ node.type = "comprehension" => set_context(node.target, "Store")
    /\ node.type = "Delete" => set_context(node.exprs[1], "Del")
    /\ node.type = "alias" =>
           (IF node.asname = <<>> THEN node.name ELSE node.asname) \notin Forbidden
    /\ \A k \in 1..Len(children(node)) : ast_for_stmt(children(node)[k])

\* the whole token list must be one statement
file_input(t, e) ==
    IF ~e.ok THEN IF e.exc = "MemoryError" THEN MemoryError ELSE SyntaxError
    ELSE IF e.pos = Len(t) + 1 /\ ast_for_stmt(e.node) THEN Module(<<e.node>>)
    ELSE SyntaxError

\* A token the tokenizer cannot read ends the list as an ERRORTOKEN, which
\* no production takes.
parse_tokens(source, t) ==
    IF t = <<>> THEN Module(<<>>)
    ELSE IF t[Len(t)].type = "UNMODELLED" THEN Unmodelled
    ELSE IF Head(source) = " " THEN SyntaxError
    ELSE file_input(t, small_stmt(t))

\* ast.parse(source): a Module, SyntaxError or MemoryError.
ast_parse(source) == parse_tokens(source, tokenize(source))

\* ------------------------------------------------------------------------
\* ClauseVisitor   (lines 18-64): the nodestack a visit appends
\* ------------------------------------------------------------------------

\* The interpreter's limit on the depth of calls, sys.getrecursionlimit()
\* as the interpreter starts: the call that would be one deeper raises
\* RuntimeError ('maximum recursion depth exceeded').
RecursionLimit == 1000

\* The depth of calls at which parse or build_sq is called: from the top
\* level of a module.
CallerFrames == 1

\* What a step leaves: the list it has built, or the exception it raised
\* (exc = "" when none), which empties the list.
Went(nodelist) == [exc |-> "", nodelist |-> nodelist]

Threw(exc) == [exc |-> exc, nodelist |-> <<>>]

\* self.nodestack.append(item) after the visit r of the children
append(r, item) == IF r.exc # "" THEN r ELSE Went(Append(r.nodelist, item))

\* the nodes appended by two visits one after the other
extend(r, s) ==
    IF r.exc # "" THEN r
    ELSE IF s.exc # "" THEN s
    ELSE Went(r.nodelist \o s.nodelist)

\* Each method takes the node and the depth of calls f it runs at, and
\* gives the nodes appended to self.nodestack, or RuntimeError.
RECURSIVE visit(_, _)
RECURSIVE visit_each(_, _)
RECURSIVE visit_next(_, _, _)
RECURSIVE generic_visit(_, _)

\* lines 35-40: self.visit on every child, called from depth f
visit_each(nodes, f) ==
    IF nodes = <<>> THEN Went(<<>>)
    ELSE visit_next(visit(Head(nodes), f + 1), Tail(nodes), f)

visit_next(r, nodes, f) ==
    IF r.exc # "" THEN r ELSE extend(r, visit_each(nodes, f))

\* line 34: list(ast.iter_fields(node)) is two calls deep, the call of
\* list and the generator it runs
generic_visit(node, f) ==
    IF f + 2 > RecursionLimit THEN Threw("RuntimeError")
    ELSE visit_each(children(node), f)

visit_BoolOp(node, f) == append(generic_visit(node, f + 1), node.op)

visit_Name(node, f) == append(generic_visit(node, f + 1), node.id)

visit_Str(node, f) ==
    LET node_val == IF startswith(node.s, <<"[">>) /\ endswith(node.s, <<"]">>)
                    THEN node.s
                    ELSE <<QUOTE>> \o node.s \o <<QUOTE>>
    IN  append(generic_visit(node, f + 1), node_val)

\* ast.NodeVisitor.visit, running at depth f, calls the method of the
\* node's class, or generic_visit
visit(node, f) ==
    CASE node.type = "BoolOp" -> visit_BoolOp(node, f + 1)
      [] node.type = "Name"   -> visit_Name(node, f + 1)
      [] node.type = "Str"    -> visit_Str(node, f + 1)
      [] OTHER                -> generic_visit(node, f + 1)

\* ------------------------------------------------------------------------
\* build_sq   (lines 125-180)
\* ------------------------------------------------------------------------

OR == <<"O", "R">>

AND == <<"A", "N", "D">>

\* qs.replace("OR", "or").replace("AND", "and")   (line 144)
lower_keywords(qs) == replace(replace(qs, OR, kw_or), AND, kw_and)

\* the keys of 'opers'   (lines 140-143)
opers == {Or_, And_}

\* opers[node]
opers_get(node) == IF node = And_ THEN "and_" ELSE "or_"

\* reduce(function, sequence) without initial value: a left fold
RECURSIVE reduce_from(_, _, _)
reduce_from(fn, a, seq) ==
    IF seq = <<>> THEN a
    ELSE reduce_from(fn, call(fn, a, Head(seq)), Tail(seq))

reduce(fn, seq) ==
    IF seq = <<>> THEN Raise("TypeError") ELSE reduce_from(fn, Head(seq), Tail(seq))

\* lines 157-159: reduce(opers[node], nodelist[-2:]); pop(); nodelist[-1] = result
\*   empty nodelist: reduce() of an empty sequence raises TypeError;
\*   one element: reduce returns it, pop() empties the list and the
\*   assignment to nodelist[-1] raises IndexError.
oper_instruction(nodelist, node) ==
    LET n == Len(nodelist) IN
    IF n = 0 THEN Threw("TypeError")
    ELSE IF n = 1 THEN Threw("IndexError")
    ELSE Went(Append(SubSeq(nodelist, 1, n - 2),
                     reduce(opers_get(node), SubSeq(nodelist, n - 1, n))))

\* lines 165-169: the leaf a literal instruction stands for
literal_sq(node, field) ==
    IF startswith(node, <<QUOTE>>) /\ endswith(node, <<QUOTE>>)
    THEN SQ(field \o EXACT_SUFFIX, strip(node, QUOTE))
    ELSE SQ(field, node)

\* lines 151-170: one iteration of the loop
instruction(nodelist, node, field) ==
    IF node \in opers
    THEN oper_instruction(nodelist, node)
    ELSE Went(Append(nodelist, literal_sq(node, field)))

\* lines 177-180, with oper = operator.or_
build_sq_return(nodelist) ==
    IF Len(nodelist) > 1 THEN reduce("or_", nodelist)
    ELSE IF Len(nodelist) = 1 THEN nodelist[1]
    ELSE Raise("IndexError")

\* the nodestack after a visit, or the RuntimeError that ended it
visited(r) ==
    IF r.exc # "" THEN [type |-> r.exc]
    ELSE [type |-> "nodestack", nodes |-> r.nodelist]

\* visitor.visit(tree)   (line 148), build_sq running at depth f
nodestack_of(tree, f) ==
    IF tree.type \in {"SyntaxError", "MemoryError", "Unmodelled"} THEN tree
    ELSE visited(visit(tree, f + 1))

\* The nodestack of a clause (lines 138-148), or the exception raised on
\* the way, build_sq running at depth f.
build_nodestack(qs, f) == nodestack_of(ast_parse(lower_keywords(qs)), f)

RECURSIVE run_nodestack(_, _, _)
RECURSIVE run_rest(_, _, _)

\* the loop goes on after an instruction unless it raised
run_rest(r, nodes, field) ==
    IF r.exc # "" THEN Raise(r.exc) ELSE run_nodestack(nodes, r.nodelist, field)

\* lines 150-180: the loop over the nodestack and the return
run_nodestack(nodes, nodelist, field) ==
    IF nodes = <<>> THEN build_sq_return(nodelist)
    ELSE run_rest(instruction(nodelist, Head(nodes), field), Tail(nodes), field)

run_or_raise(ns, field) ==
    IF ns.type = "Unmodelled" THEN Outside
    ELSE IF ns.type # "nodestack" THEN Raise(ns.type)
    ELSE run_nodestack(ns.nodes, <<>>, field)

\* build_sq(qs, field) as a whole, running at depth f: the query object
\* returned or the exception raised.
build_sq_at(qs, field, f) == run_or_raise(build_nodestack(qs, f), field)

\* build_sq called from the top level of a module
build_sq(qs, field) == build_sq_at(qs, field, CallerFrames + 1)

\* the depth build_sq runs at when parse is called: below the caller come
\* parse, reduce (line 103), the generator field_pairs that reduce runs
\* (line 121) and build_sq
build_sq_depth == CallerFrames + 4

\* ------------------------------------------------------------------------
\* Querystrings the model is run on
\* ------------------------------------------------------------------------

\* longest sequence of arbitrary tokens in a clause
MaxTokens == 2

\* most operands in a chain  X1 op X2 op ... Xn
MaxChain == 3

\* most field:clause sections in a querystring
MaxPairs == 2

SP == <<" ">>

LP == <<"(">>

RP == <<")">>

NOT == <<"N", "O", "T">>

s_KY == <<"K", "Y">>

s_VA == <<"V", "A">>

s_ORE == <<"O", "R", "E">>

q_NC == <<"\"", "N", "C", "\"">>

q_PORT == <<"\"", "P", "O", "R", "T", "\"">>

q_range == <<"\"", "[", "1", " ", "T", "O", " ", "9", "]", "\"">>

q_range_OR == <<"\"", "[", "O", "R", " ", "T", "O", " ", "Z", "]", "\"">>

s_range == <<"[", "1", " ", "T", "O", " ", "9", "]">>

f_state == <<"s", "t", "a", "t", "e">>

f_title == <<"t", "i", "t", "l", "e">>

Fields == {f_state, f_title}

\* plain words, quoted phrases and quoted ranges a user writes as search terms
Words == {s_KY, s_VA, s_ORE}

Quoted == {q_NC, q_PORT}

Ranges == {q_range, q_range_OR}

Literals == Words \cup {q_NC}

u_NC == <<"u", "\"", "N", "C", "\"">>

n_1e5 == <<"1", "e", "5">>

\* every token a clause is made of, including the instruction names, the
\* lower-case keywords, and the prefixed strings and numbers a user may
\* type as words
Vocabulary ==
    {LP, RP, AND, OR, NOT, kw_not, kw_in, kw_print, Or_, s_range, u_NC, n_1e5}
        \cup Words \cup Quoted \cup Ranges

\* the text before a term: "field:"
Prefix(f) == f \o <<":">>

RECURSIVE Join(_)
Join(toks) ==
    IF toks = <<>> THEN <<>>
    ELSE IF Len(toks) = 1 THEN toks[1]
    ELSE toks[1] \o SP \o Join(Tail(toks))

Parens(s) == LP \o s \o RP

TokenSeqs(n) == UNION {[1..k -> Vocabulary] : k \in 0..n}

\* X1 op X2 ... op Xn for every choice of literals and of AND / OR
RECURSIVE Chains(_)
Chains(n) ==
    IF n = 1 THEN Literals
    ELSE {c \o SP \o o \o SP \o x : c \in Chains(n - 1), o \in {AND, OR}, x \in Literals}

ChainClauses == UNION {Chains(n) : n \in 2..MaxChain}

GroupedClauses ==
    {Parens(a \o SP \o o1 \o SP \o b) \o SP \o o2 \o SP \o c :
        a \in Words, b \in Literals, c \in Literals, o1 \in {AND, OR}, o2 \in {AND, OR}}
    \cup
    {a \o SP \o o1 \o SP \o Parens(b \o SP \o o2 \o SP \o c) :
        a \in Words, b \in Literals, c \in Literals, o1 \in {AND, OR}, o2 \in {AND, OR}}

NegatedClauses ==
    {n \o SP \o a \o SP \o o \o SP \o b :
        n \in {NOT, kw_not}, a \in Words, b \in Words, o \in {AND, OR}}
    \cup
    {a \o SP \o o \o SP \o n \o SP \o b :
        n \in {NOT, kw_not}, a \in Words, b \in Words, o \in {AND, OR}}

\* a range as one operand of a clause
RangeClauses == {a \o SP \o OR \o SP \o r : a \in Words, r \in Ranges}

\* an operator whose second operand is an empty pair of parentheses
EmptyOperandClauses ==
    {a \o SP \o o \o SP \o LP \o RP : a \in Words \cup {Parens(s_KY \o SP \o OR \o SP \o s_VA)},
                                     o \in {AND, OR}}

\* what a user may write as a literal of a clause: a word, a quoted phrase,
\* a number, a word that is a keyword of Python or the name of an
\* instruction
ClauseLiterals == Literals \cup {n_1e5, kw_in, Or_}

\* A AND B OR C for every choice of such literals
PrecedenceClauses ==
    {a \o SP \o AND \o SP \o b \o SP \o OR \o SP \o c :
        a \in ClauseLiterals, b \in ClauseLiterals, c \in ClauseLiterals}

\* one field, one clause
SingleField ==
    {Prefix(f_state) \o c :
        c \in {Join(t) : t \in TokenSeqs(MaxTokens)} \cup ChainClauses
              \cup {Parens(c) : c \in ChainClauses}
              \cup GroupedClauses \cup NegatedClauses \cup RangeClauses
              \cup EmptyOperandClauses \cup PrecedenceClauses}

\* the clauses of the querystrings with several sections
SectionClauses ==
    {s_KY, Parens(s_KY \o SP \o OR \o SP \o q_NC), LP \o s_KY \o SP \o OR \o SP \o s_VA}

RECURSIVE Sections(_)
Sections(n) ==
    IF n = 0 THEN {<<>>}
    ELSE {<<>>} \cup
         {<<Prefix(f) \o c>> \o rest :
             f \in Fields, c \in SectionClauses, rest \in Sections(n - 1)}

\* leading text (or none), then field:clause sections, blank-separated
SeveralFields ==
    {Join(lead \o secs) : lead \in {<<>>, <<s_VA>>}, secs \in Sections(MaxPairs)}

Querystrings == SingleField \cup SeveralFields

\* ------------------------------------------------------------------------
\* parse as a state machine
\* ------------------------------------------------------------------------

VARIABLES
    qs,            \* the argument of parse
    micromanage,   \* the argument of parse
    settings,      \* django settings: HAYSTACK_DEFAULT_OPERATOR or "unset"
    pc,            \* "parse", "reduce", "build_sq", "done"
    pairs,         \* the list handed to field_pairs
    i,             \* index of the pair the generator field_pairs yields next
    acc,           \* reduce's accumulator, None_ before the first item
    field,         \* build_sq's argument
    nodestack,     \* visitor.nodestack
    ip,            \* index of the next instruction of the loop of build_sq
    nodelist,      \* build_sq's list of SQ
    result         \* the outcome of parse once pc = "done"

vars == <<qs, micromanage, settings, pc, pairs, i, acc, field, nodestack, ip,
          nodelist, result>>

\* getattr(settings, 'HAYSTACK_DEFAULT_OPERATOR', 'AND')   (lines 14-15)
HAYSTACK_DEFAULT_OPERATOR == IF settings = "unset" THEN "AND" ELSE settings

Init ==
    /\ qs \in Querystrings
    /\ micromanage \in BOOLEAN
    /\ settings \in {"unset", "AND", "OR", "NOT", "XOR"}
    /\ pc = "parse"
    /\ pairs = <<>>
    /\ i = 1
    /\ acc = None_
    /\ field = <<>>
    /\ nodestack = <<>>
    /\ ip = 1
    /\ nodelist = <<>>
    /\ result = <<"pending">>

\* reduce folding one more item of the generator into its accumulator
\* the same with the operands the other way round
reduce_item_swapped(item) ==
    IF acc = None_ THEN item
    ELSE call(OPERATORS(HAYSTACK_DEFAULT_OPERATOR), item, acc)

reduce_item(item) ==
    IF acc = None_ THEN item
    ELSE call(OPERATORS(HAYSTACK_DEFAULT_OPERATOR), acc, item)

\* lines 83-103: split the querystring, create the generator top_sq and,
\* a generator object being true whatever it will yield, enter reduce
\* OPERATORS[HAYSTACK_DEFAULT_OPERATOR], an argument of the call, is looked
\* up before reduce runs: KeyError for a name that is no key
parse_split ==
    /\ pc = "parse"
    /\ pairs' = parse_pairs(qs)
    /\ IF OPERATORS(HAYSTACK_DEFAULT_OPERATOR) = "KeyError"
       THEN /\ result' = Raise("KeyError")
            /\ pc' = "done"
       ELSE /\ pc' = "reduce"
            /\ UNCHANGED result
    /\ UNCHANGED <<qs, micromanage, settings, i, acc, field, nodestack, ip,
                   nodelist>>

\* line 103: the generator is exhausted; reduce returns its accumulator, or
\* raises TypeError when it never got an item
reduce_return ==
    /\ pc = "reduce"
    /\ i > Len(pairs)
    /\ result' = IF acc = None_ THEN Raise("TypeError") ELSE acc
    /\ pc' = "done"
    /\ UNCHANGED <<qs, micromanage, settings, pairs, i, acc, field, nodestack,
                   ip, nodelist>>

\* line 103: reduce keeps the value v it folded the item into and asks for
\* the next one, or the exception v of the operator leaves parse
reduce_take(v) ==
    IF IsRaise(v)
    THEN /\ result' = v
         /\ pc' = "done"
         /\ UNCHANGED <<i, acc>>
    ELSE /\ acc' = v
         /\ i' = i + 1
         /\ pc' = "reduce"
         /\ UNCHANGED result

\* line 123: field_pairs yields SQ([pair.field, pair.term])
field_pairs_raw ==
    /\ pc = "reduce"
    /\ i <= Len(pairs)
    /\ ~micromanage
    /\ reduce_take(reduce_item(SQ(pairs[i].field, pairs[i].term)))
    /\ UNCHANGED <<qs, micromanage, settings, pairs, field, nodestack, ip,
                   nodelist>>

\* lines 138-148: build_sq starts its loop on the nodestack ns, or the
\* exception of ast.parse or of the visit leaves parse
build_sq_start(ns) ==
    IF ns.type # "nodestack"
    THEN /\ result' = IF ns.type = "Unmodelled" THEN Outside ELSE Raise(ns.type)
         /\ pc' = "done"
         /\ UNCHANGED <<field, nodestack, ip, nodelist>>
    ELSE /\ field' = pairs[i].field
         /\ nodestack' = ns.nodes
         /\ ip' = 1
         /\ nodelist' = <<>>
         /\ pc' = "build_sq"
         /\ UNCHANGED result

\* line 121: field_pairs, run by reduce, calls build_sq on the next pair
build_sq_enter ==
    /\ pc = "reduce"
    /\ i <= Len(pairs)
    /\ micromanage
    /\ build_sq_start(build_nodestack(pairs[i].term, build_sq_depth))
    /\ UNCHANGED <<qs, micromanage, settings, pairs, i, acc>>

\* the loop after an instruction: on with the new nodelist, or out with the
\* exception, which leaves the list empty
build_sq_step(r) ==
    IF r.exc # ""
    THEN /\ result' = Raise(r.exc)
         /\ pc' = "done"
         /\ nodelist' = r.nodelist
         /\ UNCHANGED ip
    ELSE /\ nodelist' = r.nodelist
         /\ ip' = ip + 1
         /\ UNCHANGED <<pc, result>>

\* lines 150-170: one iteration of the loop over the nodestack
build_sq_loop ==
    /\ pc = "build_sq"
    /\ ip <= Len(nodestack)
    /\ build_sq_step(instruction(nodelist, nodestack[ip], field))
    /\ UNCHANGED <<qs, micromanage, settings, pairs, i, acc, field, nodestack>>

\* build_sq returns v to field_pairs, which yields it to reduce, or raises
build_sq_yield(v) ==
    IF IsRaise(v)
    THEN /\ result' = v
         /\ pc' = "done"
         /\ UNCHANGED <<i, acc>>
    ELSE reduce_take(reduce_item(v))

\* lines 177-180, then line 103
build_sq_exit ==
    /\ pc = "build_sq"
    /\ ip > Len(nodestack)
    /\ build_sq_yield(build_sq_return(nodelist))
    /\ UNCHANGED <<qs, micromanage, settings, pairs, field, nodestack, ip,
                   nodelist>>

Next ==
    \/ parse_split
    \/ reduce_return
    \/ field_pairs_raw
    \/ build_sq_enter
    \/ build_sq_loop
    \/ build_sq_exit

Spec == Init /\ [][Next]_vars

\* ------------------------------------------------------------------------
\* Properties
\* ------------------------------------------------------------------------

\* the querystring "state:<clause>"
OnState(clause) == Prefix(f_state) \o clause

\* a op b, as the user writes it
Infix(a, o, b) == a \o SP \o o \o SP \o b

\* the text between the double quotes of a quoted term
Inner(q) == SubSeq(q, 2, Len(q) - 1)

\* what build_sq makes of one literal alone
Leaf(x) == build_sq(x, f_state)

\* the backend's negation of a query object (SQ.__invert__)
not_(a) == <<"NOT", a>>

\* the default operator is AND or OR, configured or by default
Configured == OPERATORS(HAYSTACK_DEFAULT_OPERATOR) \in {"and_", "or_"}

\* parse has returned or raised, in the mode that compiles clauses
Compiled == pc = "done" /\ micromanage /\ Configured

\* C1: in one field clause compiled by build_sq, for all literals A, B, C
\* (words, quoted phrases, numbers, any run that is not a structural
\* token), each has a leaf and 'A AND B OR C' compiles to the same query
\* object as '(A AND B) OR C', namely OR(AND(leaf A, leaf B), leaf C), and
\* to a different one than 'A AND (B OR C)', which compiles to
\* AND(leaf A, OR(leaf B, leaf C)).
C1_Precedence ==
    Compiled =>
        \A a \in ClauseLiterals, b \in ClauseLiterals, c \in ClauseLiterals :
            qs = OnState(Infix(Infix(a, AND, b), OR, c)) =>
                /\ Leaf(a)[1] = "SQ" /\ Leaf(b)[1] = "SQ" /\ Leaf(c)[1] = "SQ"
                /\ result = or_(and_(Leaf(a), Leaf(b)), Leaf(c))
                /\ result = build_sq(Infix(Parens(Infix(a, AND, b)), OR, c), f_state)
                /\ build_sq(Infix(a, AND, Parens(Infix(b, OR, c))), f_state)
                       = and_(Leaf(a), or_(Leaf(b), Leaf(c)))
                /\ result # build_sq(Infix(a, AND, Parens(Infix(b, OR, c))), f_state)

\* the combination the keyword o of a clause stands for
Combined(o, a, b) == IF o = AND THEN and_(a, b) ELSE or_(a, b)

\* C2: a run of the same operator compiles to the left-leaning chain of that
\* operator: 'X1 AND X2' to AND(X1, X2), 'X1 AND X2 AND X3' to
\* AND(AND(X1, X2), X3), and likewise for OR; no other operator appears.
C2_LeftChain ==
    Compiled =>
        \A o \in {AND, OR} : \A a \in Literals, b \in Literals, c \in Literals :
            /\ qs = OnState(Infix(a, o, b)) =>
                   result = Combined(o, Leaf(a), Leaf(b))
            /\ qs = OnState(Infix(Infix(a, o, b), o, c)) =>
                   result = Combined(o, Combined(o, Leaf(a), Leaf(b)), Leaf(c))

\* C3: NOT is a unary operator of a field clause: 'NOT A AND B' (in either
\* spelling of the keyword) compiles to AND(NOT(leaf A), leaf B); the
\* negation is in the result.
C3_Negation ==
    Compiled =>
        \A n \in {NOT, kw_not} : \A a \in Words, b \in Words :
            qs = OnState(Infix(n \o SP \o a, AND, b)) =>
                result = and_(not_(Leaf(a)), Leaf(b))

\* C4: parse("") returns None and raises nothing, in either mode.
C4_EmptyIsNone == (pc = "done" /\ Configured /\ qs = <<>>) => result = None_

\* C5: for a querystring that yields n >= 1 pairs whose per-field query
\* objects q1..qn exist (SQ([field, term]) without micromanage, the value of
\* build_sq with it), parse returns op(...op(op(q1, q2), q3)..., qn) for the
\* configured default operator, AND when none is configured, and q1 itself
\* when n = 1.
FieldObject(pair) ==
    IF micromanage THEN build_sq_at(pair.term, pair.field, build_sq_depth)
    ELSE SQ(pair.field, pair.term)

RECURSIVE PairwiseFold(_, _)
PairwiseFold(op, n) ==
    IF n = 1 THEN FieldObject(pairs[1])
    ELSE <<op, PairwiseFold(op, n - 1), FieldObject(pairs[n])>>

C5_TopLevelFold ==
    (/\ pc = "done"
     /\ Configured
     /\ Len(pairs) >= 1
     /\ \A k \in 1..Len(pairs) : IsSQ(FieldObject(pairs[k])))
    => /\ settings = "OR" => result = PairwiseFold("OR", Len(pairs))
       /\ settings \in {"AND", "unset"} => result = PairwiseFold("AND", Len(pairs))
       /\ Len(pairs) = 1 => result = FieldObject(pairs[1])

C5_Witness ==
    /\ pc = "done"
    /\ micromanage
    /\ settings = "OR"
    /\ Len(pairs) >= 2
    /\ \E k \in 1..Len(pairs) : FieldObject(pairs[k])[1] = "OR"
    /\ result[1] = "OR"

\* C6: the pairs reach the reducer in the order of the querystring: the
\* default-field pair of leading text is the first operand of the fold and
\* the fields follow in their order.
C6_LeadingTextFirst ==
    (pc = "done" /\ ~micromanage /\ settings = "unset") =>
        \A f \in Fields :
            qs = Join(<<s_VA, Prefix(f) \o s_KY>>) =>
                /\ pairs[1].field = HAYSTACK_DOCUMENT_FIELD
                /\ result = and_(SQ(HAYSTACK_DOCUMENT_FIELD, s_VA \o SP), SQ(f, s_KY))

\* C7: a literal in double quotes becomes a leaf on '<field>__exact' with
\* the quotes stripped from its text, an unquoted plain literal a leaf on
\* '<field>' with its text unchanged.
C7_QuotingTogglesExact ==
    Compiled =>
        /\ \A w \in Words : qs = OnState(w) => result = SQ(f_state, w)
        /\ \A q \in Quoted :
               qs = OnState(q) => result = SQ(f_state \o EXACT_SUFFIX, Inner(q))

\* C8 as stated: the leaf build_sq emits for a range literal (written
\* [1 TO 9], or in the double quotes visit_Str asks for) is on
\* '<field>__exact' and has the literal, brackets included, as its text.
C8_RangeExact ==
    Compiled =>
        \A r \in {s_range, q_range} :
            (qs = OnState(r) /\ IsSQ(result)) =>
                result = SQ(f_state \o EXACT_SUFFIX, s_range)

\* C9: a clause with an unmatched parenthesis ends parse in an error and
\* gives no query object, in every mode.
C9_UnbalancedIsError ==
    (pc = "done" /\ Configured) =>
        \A f \in Fields :
            qs = Prefix(f) \o LP \o Infix(s_KY, OR, s_VA) => IsRaise(result)

\* the instructions among the first n of the nodestack that build_sq takes
\* for operators, and those it takes for literals
OperatorsIn(n) == Cardinality({k \in 1..n : nodestack[k] \in opers})

LiteralsIn(n) == Cardinality({k \in 1..n : nodestack[k] \notin opers})

\* C10: in build_sq's loop over a nodestack the visitor emitted from an
\* expression, at every operator instruction nodelist holds at least two
\* query objects; every operator instruction has shortened nodelist by one
\* and every literal instruction has lengthened it by one; and nodelist is
\* not empty when the loop ends.
C10_StackDiscipline ==
    (pc = "build_sq" /\ Len(nodestack) >= 1) =>
        /\ (ip <= Len(nodestack) /\ nodestack[ip] \in opers) => Len(nodelist) >= 2
        /\ Len(nodelist) = LiteralsIn(ip - 1) - OperatorsIn(ip - 1)
        /\ ip > Len(nodestack) => Len(nodelist) >= 1

====
